---- MODULE Spec2Model ----
(***************************************************************************)
(* Werewolf game engine (src/src/green/environment.py) driven by           *)
(* Agent.run (src/src/green/agent.py).                                     *)
(*                                                                         *)
(* The engine is a single asyncio task.  Code between two awaits runs      *)
(* atomically, so each action below is the continuation from one await to  *)
(* the next; pc names the await (or the plain control point) the task is   *)
(* standing at.  Players are the positions 1..Len(players) of the roster,  *)
(* 0 stands for None.                                                      *)
(***************************************************************************)
EXTENDS Integers, Sequences, FiniteSets, TLC

VARIABLES
    request,          \* the payload Agent.run parsed: participants and config
    pc,               \* control point of Agent.run / run_game
    failure,          \* the exception that ended the run, "none" while there is none
    players,          \* self.players: sequence of [name, role, is_alive, is_remote]
    werewolf,         \* self.werewolf (roster position, 0 for None)
    seer,             \* self.seer
    medic,            \* self.medic
    conv_rounds,      \* self.conv_rounds
    game_over,        \* self.game_over
    winner,           \* self.winner ("None" while unset)
    game_log,         \* self.game_log: the event log
    narration,        \* self.narration
    day,              \* run_game's local day
    round,            \* _phase_day's loop variable i
    votes,            \* _phase_day's local votes, in insertion order: <<name, count>>
    inflight,         \* the players whose send of the current step has not returned yet
    werewolf_target,  \* _phase_night's local werewolf_target
    medic_target,     \* _phase_night's local medic_target
    sent,             \* per roster position, the number of send calls made to it
    reports,          \* the result of get_reports, <<>> until it has been called
    statements,       \* _phase_day's local statements (_phase_day_1's introductions)
    prompt,           \* per roster position, the message last sent to it
    vote_raw          \* per roster position, the local vote_raw of its _vote task

vars == <<request, pc, failure, players, werewolf, seer, medic, conv_rounds,
          game_over, winner, game_log, narration, day, round, votes, inflight,
          werewolf_target, medic_target, sent, reports, statements, prompt,
          vote_raw>>

(***************************************************************************)
(* Bounds of the model.                                                    *)
(***************************************************************************)
\* run_game is followed up to and including the night of this day
MaxDay == 2
\* largest player_count a game is played with
MaxPlayers == 4
\* largest number of remote participants in a request
MaxRemote == 1
\* largest roster the win check is evaluated on, over all alive/dead assignments
MaxCheckPlayers == 5
\* largest number of VOTE records in an event log that is scored
MaxVoteRecords == 2

(***************************************************************************)
(* Text.  A Python str is modelled by its sequence of characters; Chars    *)
(* gives the characters of every string literal the model uses.            *)
(***************************************************************************)
Chars(s) ==
    CASE s = "Alice"   -> <<"A", "l", "i", "c", "e">>
      [] s = "Bob"     -> <<"B", "o", "b">>
      [] s = "Charlie" -> <<"C", "h", "a", "r", "l", "i", "e">>
      [] s = "David"   -> <<"D", "a", "v", "i", "d">>
      [] s = "Eva"     -> <<"E", "v", "a">>
      [] s = "Frank"   -> <<"F", "r", "a", "n", "k">>
      [] s = "Grace"   -> <<"G", "r", "a", "c", "e">>
      [] s = "Hannah"  -> <<"H", "a", "n", "n", "a", "h">>
      [] s = "Ian"     -> <<"I", "a", "n">>
      [] s = "Judy"    -> <<"J", "u", "d", "y">>
      [] s = "Zoe"     -> <<"Z", "o", "e">>
      [] s = "NONE"    -> <<"N", "O", "N", "E">>
      [] s = " ALICE " -> <<" ", "A", "L", "I", "C", "E", " ">>
      [] s = "I vote for Bob!" ->
            <<"I", " ", "v", "o", "t", "e", " ", "f", "o", "r", " ", "B", "o", "b", "!">>
      [] s = "bob or alice" ->
            <<"b", "o", "b", " ", "o", "r", " ", "a", "l", "i", "c", "e">>
      [] s = "VOTE"    -> <<"V", "O", "T", "E">>
      [] s = "PHASE"   -> <<"P", "H", "A", "S", "E">>
      [] s = "DAY"     -> <<"D", "A", "Y">>
      [] s = "NIGHT"   -> <<"N", "I", "G", "H", "T">>
      [] s = "KILLED"  -> <<"K", "I", "L", "L", "E", "D">>
      [] s = "SAVED"   -> <<"S", "A", "V", "E", "D">>
      [] s = "ELIMINATED" -> <<"E", "L", "I", "M", "I", "N", "A", "T", "E", "D">>
      [] s = "SEER_SEES" -> <<"S", "E", "E", "R", "_", "S", "E", "E", "S">>
      [] s = "MEDIC_PROTECTS" ->
            <<"M", "E", "D", "I", "C", "_", "P", "R", "O", "T", "E", "C", "T", "S">>
      [] s = "Werewolf" -> <<"W", "e", "r", "e", "w", "o", "l", "f">>
      [] s = "Seer"    -> <<"S", "e", "e", "r">>
      [] s = "Medic"   -> <<"M", "e", "d", "i", "c">>
      [] s = "Villager" -> <<"V", "i", "l", "l", "a", "g", "e", "r">>

UpperCase == <<"A", "B", "C", "D", "E", "F", "G", "H", "I", "J", "K", "L", "M",
               "N", "O", "P", "Q", "R", "S", "T", "U", "V", "W", "X", "Y", "Z">>

LowerCase == <<"a", "b", "c", "d", "e", "f", "g", "h", "i", "j", "k", "l", "m",
               "n", "o", "p", "q", "r", "s", "t", "u", "v", "w", "x", "y", "z">>

\* str.lower() on one character
LowerChar(c) ==
    IF \E k \in 1..Len(UpperCase) : UpperCase[k] = c
    THEN LowerCase[CHOOSE k \in 1..Len(UpperCase) : UpperCase[k] = c]
    ELSE c

\* str.lower()
Lower(cs) == [k \in 1..Len(cs) |-> LowerChar(cs[k])]

\* str.strip(): drop the leading and the trailing blanks
Strip(cs) ==
    LET solid == {k \in 1..Len(cs) : cs[k] # " "}
    IN  IF solid = {} THEN <<>>
        ELSE LET lo == CHOOSE k \in solid : \A j \in solid : k <= j
                 hi == CHOOSE k \in solid : \A j \in solid : k >= j
             IN  SubSeq(cs, lo, hi)

\* Python's `a in b` on str
IsSubstring(a, b) ==
    \E k \in 0..(Len(b) - Len(a)) : SubSeq(b, k + 1, k + Len(a)) = a

(***************************************************************************)
(* Roster construction.                                                    *)
(***************************************************************************)
DEFAULT_PLAYERS == <<"Alice", "Bob", "Charlie", "David", "Eva",
                     "Frank", "Grace", "Hannah", "Ian", "Judy">>

MIN_GAME_SIZE == 6

CONVERSATION_ROUNDS == 3

None == 0

Max(a, b) == IF a >= b THEN a ELSE b

Min(a, b) == IF a <= b THEN a ELSE b

\* Python's seq[:k] for k >= 0
Prefix(s, k) == SubSeq(s, 1, Min(k, Len(s)))

\* the test of conversation_rounds in __init__; TRUE when the value is accepted
ConvRoundsOk(c) == ~(c < 1 \/ c > 5)

\* player_count = max(player_count, remote_count)
EffectiveCount(participants, player_count) == Max(player_count, Len(participants))

\* the test of player_count with the limit one too high
PlayerCountLax(n) == ~(n > Len(DEFAULT_PLAYERS) + 1)

\* the test of player_count in _assign_roles; TRUE when the value is accepted
PlayerCountOk(n) == ~(n > Len(DEFAULT_PLAYERS))

\* one "Villager" entry too many
VillagerCountOffByOne(n) == Max(n - 2, 0)

\* the number of "Villager" entries: ["Villager"] * (player_count - 3)
VillagerCount(n) == Max(n - 3, 0)

\* names = agent_names + DEFAULT_PLAYERS[:player_count][:npc_count]
RosterNames(participants, n) ==
    participants \o Prefix(Prefix(DEFAULT_PLAYERS, n), Max(n - Len(participants), 0))

\* agent_urls + [None] * npc_count, kept as "is there a url"
RosterRemote(participants, n) ==
    [k \in 1..(Len(participants) + Max(n - Len(participants), 0)) |-> k <= Len(participants)]

\* every order random.shuffle can leave the list of roles in: the places w, s, m
\* of the three special roles among 3 + VillagerCount(n) entries
Shuffles(n) ==
    LET len == 3 + VillagerCount(n)
    IN  {[k \in 1..len |-> IF k = wsm[1] THEN "Werewolf"
                           ELSE IF k = wsm[2] THEN "Seer"
                           ELSE IF k = wsm[3] THEN "Medic"
                           ELSE "Villager"] :
            wsm \in {t \in (1..len) \X (1..len) \X (1..len) :
                        t[1] # t[2] /\ t[1] # t[3] /\ t[2] # t[3]}}

\* the loop over zip(names, roles, agent_urls): one AsyncPlayer per triple
ZipPlayers(names, roles, remote) ==
    [k \in 1..Min(Len(names), Min(Len(roles), Len(remote))) |->
        [name |-> names[k], role |-> roles[k], is_alive |-> TRUE, is_remote |-> remote[k]]]

\* self.werewolf / self.seer / self.medic: the last player given the role, or None
Holder(ps, role) ==
    IF \E k \in 1..Len(ps) : ps[k].role = role
    THEN CHOOSE k \in 1..Len(ps) :
            ps[k].role = role /\ \A j \in 1..Len(ps) : ps[j].role = role => j <= k
    ELSE None


\* _assign_roles: the roster for one outcome `roles` of random.shuffle
AssignRoles(participants, player_count, roles) ==
    LET n == EffectiveCount(participants, player_count)
    IN  ZipPlayers(RosterNames(participants, n), roles, RosterRemote(participants, n))

(***************************************************************************)
(* Name resolution and the win check.                                      *)
(***************************************************************************)
\* what a player has been sent before the first send
NoMessage == [kind |-> "none", text |-> <<>>, heard |-> <<>>, final |-> FALSE]

\* a _vote task that has no reply yet
NoReply == ""

\* the alive_players property, as roster positions
Alive(ps) == {k \in 1..Len(ps) : ps[k].is_alive}

\* p.name.lower() in clean, for every name and reply text of the model
NameUniverse == {DEFAULT_PLAYERS[k] : k \in 1..Len(DEFAULT_PLAYERS)} \cup {"Zoe"}

ReplyUniverse == {"NONE", " ALICE ", "I vote for Bob!", "bob or alice"} \cup NameUniverse

NameInReply ==
    [n \in NameUniverse, r \in ReplyUniverse |->
        IsSubstring(Lower(Chars(n)), Lower(Strip(Chars(r))))]

\* _parse_name: the first living player, in roster order, whose name occurs in the reply
ParseName(ps, raw) ==
    LET hits == {k \in Alive(ps) : NameInReply[ps[k].name, raw]}
    IN  IF hits = {} THEN None ELSE CHOOSE k \in hits : \A j \in hits : k <= j

\* check_game_over with `>` where the code has `>=`
CheckGameOverStrict(ps, go, w) ==
    LET num_wolves == Cardinality({k \in Alive(ps) : ps[k].role = "Werewolf"})
        num_others == Cardinality(Alive(ps)) - num_wolves
    IN  IF num_wolves = 0 THEN [game_over |-> TRUE, winner |-> "Villagers"]
        ELSE IF num_wolves > num_others THEN [game_over |-> TRUE, winner |-> "Werewolves"]
        ELSE [game_over |-> go, winner |-> w]

\* check_game_over with the two winners taken for each other
CheckGameOverSwapped(ps, go, w) ==
    LET num_wolves == Cardinality({k \in Alive(ps) : ps[k].role = "Werewolf"})
        num_others == Cardinality(Alive(ps)) - num_wolves
    IN  IF num_wolves = 0 THEN [game_over |-> TRUE, winner |-> "Werewolves"]
        ELSE IF num_wolves >= num_others THEN [game_over |-> TRUE, winner |-> "Villagers"]
        ELSE [game_over |-> go, winner |-> w]

\* check_game_over: the new (game_over, winner) from the roster and the old pair
CheckGameOver(ps, go, w) ==
    LET num_wolves == Cardinality({k \in Alive(ps) : ps[k].role = "Werewolf"})
        num_others == Cardinality(Alive(ps)) - num_wolves
    IN  IF num_wolves = 0 THEN [game_over |-> TRUE, winner |-> "Villagers"]
        ELSE IF num_wolves >= num_others THEN [game_over |-> TRUE, winner |-> "Werewolves"]
        ELSE [game_over |-> go, winner |-> w]

(***************************************************************************)
(* Scoring.  The event log is a list of ":"-joined lines; get_reports      *)
(* reads the lines with startswith and split.                              *)
(***************************************************************************)
\* str(day) for the days of a game
Digits(n) == <<<<"0", "1", "2", "3", "4", "5", "6", "7", "8", "9">>[n + 1]>>

\* the line the f-string of a record produces: the fields joined with ":"
Line(r) ==
    LET field(k) == IF r[1] = "PHASE" /\ k = 2 THEN Digits(r[k]) ELSE Chars(r[k])
        RECURSIVE join(_)
        join(k) == IF k > Len(r) THEN <<>> ELSE <<":">> \o field(k) \o join(k + 1)
    IN  field(1) \o join(2)

\* str.startswith
StartsWith(cs, prefix) ==
    Len(prefix) <= Len(cs) /\ SubSeq(cs, 1, Len(prefix)) = prefix

\* str.split(":")
Split(cs) ==
    LET RECURSIVE from(_, _)
        from(k, field) ==
            IF k > Len(cs) THEN <<field>>
            ELSE IF cs[k] = ":" THEN <<field>> \o from(k + 1, <<>>)
            ELSE from(k + 1, Append(field, cs[k]))
    IN  from(1, <<>>)

\* get_reports: per name the role, team_win and suspicion_score, and for the
\* voters it is computed for the voting_accuracy, kept as <<correct, len(votes)>>
\* for the quotient correct / len(votes).  A name held by several players has
\* one entry, written last by the last of them.
GetReports(ps, log, w) ==
    LET names == {ps[k].name : k \in 1..Len(ps)}
        lines == [k \in 1..Len(log) |-> Line(log[k])]
        last(n) == CHOOSE k \in 1..Len(ps) :
                        ps[k].name = n /\ \A j \in 1..Len(ps) : ps[j].name = n => j <= k
        role(n) == ps[last(n)].role
        \* reports[v.split(":")[2]]: the entry whose key is the third field
        entry(key) == CHOOSE n \in names : Chars(n) = key
        votes_of(n) == SelectSeq(lines,
                        LAMBDA l : StartsWith(l, Chars("VOTE") \o <<":">> \o Chars(n) \o <<":">>))
        scored(n) == \E k \in 1..Len(ps) :
                        ps[k].name = n /\ ps[k].role # "Werewolf" /\ votes_of(n) # <<>>
        base(n) == [role |-> role(n),
                    team_win |-> \/ (w = "Werewolves" /\ role(n) = "Werewolf")
                                 \/ (w = "Villagers" /\ role(n) # "Werewolf"),
                    suspicion_score |->
                        Len(SelectSeq(lines,
                                LAMBDA l : /\ StartsWith(l, Chars("VOTE") \o <<":">>)
                                           /\ Split(l)[3] = Chars(n)))]
    IN  [n \in names |->
            IF scored(n)
            THEN [role |-> base(n).role,
                  team_win |-> base(n).team_win,
                  suspicion_score |-> base(n).suspicion_score,
                  voting_accuracy |->
                      <<Len(SelectSeq(votes_of(n),
                                LAMBDA v : role(entry(Split(v)[3])) = "Werewolf")),
                        Len(votes_of(n))>>]
            ELSE base(n)]

(***************************************************************************)
(* Requests.                                                               *)
(***************************************************************************)
\* the key orders of a participants dict with at most k keys drawn from names
Participants(names, k) ==
    {p \in UNION {[1..len -> names] : len \in 0..k} :
        \A a, b \in 1..Len(p) : a # b => p[a] # p[b]}

\* config.get(key, default)
ConfigGet(config, key, default) ==
    IF key \in DOMAIN config THEN config[key] ELSE default

\* the config dicts with the given values, each key present or absent
Configs(player_counts, rounds) ==
    {[player_count |-> c, conversation_rounds |-> r] : c \in player_counts, r \in rounds}
    \cup {[player_count |-> c] : c \in player_counts}
    \cup {[conversation_rounds |-> r] : r \in rounds}

\* requests a game is played with
GameRequests ==
    {[participants |-> p, config |-> c] :
        p \in Participants({"Alice"}, MaxRemote),
        c \in {[player_count |-> n, conversation_rounds |-> r] :
                  n \in (0..MaxPlayers) \cup {Len(DEFAULT_PLAYERS) + 1}, r \in {0, 2, 6}}}

\* requests of games with one and with three rounds of statements a day
DiscussionRequests ==
    {[participants |-> <<>>, config |-> [player_count |-> MaxPlayers, conversation_rounds |-> r]] :
        r \in {1, 3}}

\* requests of games whose first vote is followed under every order of arrival
VoteRequests ==
    {[participants |-> p, config |-> [player_count |-> MaxPlayers, conversation_rounds |-> 1]] :
        p \in Participants({"Alice"}, MaxRemote)}

\* requests of games with a roster of three players and more
TerminationRequests ==
    {[participants |-> p, config |-> [player_count |-> n, conversation_rounds |-> 1]] :
        p \in Participants({"Alice"}, MaxRemote), n \in 3..MaxPlayers}

\* requests the roster is built for
RosterRequests ==
    {[participants |-> p, config |-> c] :
        p \in Participants({"Alice", "Zoe"}, MaxRemote + 1),
        c \in Configs(0..(Len(DEFAULT_PLAYERS) + 2), {0, 1, 5, 6})}

(***************************************************************************)
(* Initial state: Agent.run has parsed the request, nothing is built yet.  *)
(***************************************************************************)
InitFields ==
    /\ pc = "start"
    /\ failure = "none"
    /\ players = <<>>
    /\ werewolf = None
    /\ seer = None
    /\ medic = None
    /\ conv_rounds = None
    /\ game_over = FALSE
    /\ winner = "None"
    /\ game_log = <<>>
    /\ narration = <<>>
    /\ day = 1
    /\ round = 0
    /\ votes = <<>>
    /\ inflight = {}
    /\ werewolf_target = None
    /\ medic_target = None
    /\ sent = <<>>
    /\ reports = <<>>
    /\ statements = <<>>
    /\ prompt = <<>>
    /\ vote_raw = <<>>

Init ==
    /\ request \in GameRequests
    /\ InitFields

UNCHANGED_game ==
    UNCHANGED <<game_over, winner, game_log, narration, day, round, votes, inflight,
                werewolf_target, medic_target>>

\* AsyncGameEnvironment(participants, config) in Agent.run: __init__ and _assign_roles
Construct ==
    /\ pc = "start"
    /\ LET c == ConfigGet(request.config, "conversation_rounds", CONVERSATION_ROUNDS)
           n == EffectiveCount(request.participants,
                               ConfigGet(request.config, "player_count", MIN_GAME_SIZE))
       IN  IF ~ConvRoundsOk(c)
           THEN /\ pc' = "error"
                /\ failure' = "ValueError: conversation_rounds"
                /\ conv_rounds' = c
                /\ UNCHANGED <<players, werewolf, seer, medic, sent, prompt>>
           ELSE IF ~PlayerCountOk(n)
           THEN /\ pc' = "error"
                /\ failure' = "ValueError: players"
                /\ conv_rounds' = c
                /\ UNCHANGED <<players, werewolf, seer, medic, sent, prompt>>
           ELSE \E roles \in Shuffles(n) :
                /\ players' = AssignRoles(request.participants, n, roles)
                /\ werewolf' = Holder(players', "Werewolf")
                /\ seer' = Holder(players', "Seer")
                /\ medic' = Holder(players', "Medic")
                /\ sent' = [k \in 1..Len(players') |-> 0]
                /\ prompt' = [k \in 1..Len(players') |-> NoMessage]
                /\ conv_rounds' = c
                /\ pc' = "loop"
                /\ UNCHANGED failure
    /\ UNCHANGED <<request, vote_raw, reports, statements>>
    /\ UNCHANGED_game


(***************************************************************************)
(* Helpers of the phases.                                                  *)
(***************************************************************************)
\* asyncio.gather returns without waiting for the sends
GatheredNoWait == TRUE

\* asyncio.gather returns: every send of the step has returned
Gathered == inflight = {}

\* _broadcast sends to every player with is_alive set, dead ones included
BroadcastToAll(ps) == 1..Len(ps)

\* the players _broadcast sends to
BroadcastTo(ps) == Alive(ps)

\* one more send call to every position of S
SendTo(S) == [k \in 1..Len(sent) |-> IF k \in S THEN sent[k] + 1 ELSE sent[k]]

\* a message that carries no statements: its kind and its text, the text as the
\* pieces of the f-string with the interpolated values between them, each a string
Message(kind, text) == [kind |-> kind, text |-> text, heard |-> <<>>, final |-> FALSE]

\* player.send(message) for every player of S, the same message for each
Send(S, kind, text) ==
    /\ sent' = SendTo(S)
    /\ prompt' = [k \in 1..Len(prompt) |->
            IF k \in S THEN Message(kind, text) ELSE prompt[k]]

\* ", ".join([p.name for p in self.players if p != player])
OtherPlayers(ps, k) ==
    [j \in 1..(Len(ps) - 1) |-> IF j < k THEN ps[j].name ELSE ps[j + 1].name]

\* role_message of _introduce
RoleMessage(ps, k) ==
    <<"It is Day 1. Your name is", ps[k].name, "and your secret role is", ps[k].role,
      "The other players are:">> \o OtherPlayers(ps, k)

\* _introduce(p) for p in self.alive_players, up to the send
Introduce(S) ==
    /\ sent' = SendTo(S)
    /\ prompt' = [k \in 1..Len(prompt) |->
            IF k \in S THEN Message("introduce", RoleMessage(players, k)) ELSE prompt[k]]

\* role_message of _speak
SpeakMessage(d) == <<"It is Day", ToString(d), "Make a statement to the other players.">>

\* prelude + the question of a night action
NightPrompt(d, question) == <<"The sun sets as we enter Night", ToString(d), question>>

\* seer_result
SeerResult(ps, seer_target) ==
    IF seer_target # None
    THEN <<ps[seer_target].name, "is a", ps[seer_target].role>>
    ELSE <<"Your inspection yielded no results.">>

\* night_summary with the role of the victim in it
NightSummaryWithRole(ps, wt, saved) ==
    IF wt # None
    THEN IF saved
         THEN <<"The Werewolf tried to kill", ps[wt].name, "but they were saved by the Medic.">>
         ELSE <<"The Werewolf killed", ps[wt].name, ps[wt].role, "during the night.">>
    ELSE <<"No one was killed during the night.">>

\* night_summary
NightSummary(ps, wt, saved) ==
    IF wt # None
    THEN IF saved
         THEN <<"The Werewolf tried to kill", ps[wt].name, "but they were saved by the Medic.">>
         ELSE <<"The Werewolf killed", ps[wt].name, "during the night.">>
    ELSE <<"No one was killed during the night.">>

\* message of the elimination
EliminationMessage(p) == <<"The town has eliminated", p.name, "They were a", p.role>>

\* message of the tie
TieMessage(eliminated) ==
    (<<"There was a tie between">> \o eliminated) \o <<"No one is eliminated.">>

\* the positions of S in roster order
InOrder(S) ==
    LET RECURSIVE from(_)
        from(k) == IF k > Len(players) THEN <<>>
                   ELSE IF k \in S THEN <<k>> \o from(k + 1) ELSE from(k + 1)
    IN  from(1)

\* the whole list of statements, the recipient's own included
AllStatements(stmts, idx) == stmts

\* [stmt for i, stmt in enumerate(statements) if i != idx], idx counted from 1
OthersStatements(stmts, idx) ==
    SubSeq(stmts, 1, idx - 1) \o SubSeq(stmts, idx + 1, Len(stmts))

\* the statements a gather over alive_players returns: one per living player, in
\* roster order, each a text the player has not given before
Gather(no) ==
    LET order == InOrder(Alive(players))
    IN  [idx \in 1..Len(order) |-> [by |-> order[idx], no |-> no]]

\* the number of the statement a player is asked for next
NextNo == IF statements = <<>> THEN 1 ELSE statements[1].no + 1

\* player.send(message) for (idx, player) in enumerate(self.alive_players), the
\* message carrying the statements of the others
SendHeard(kind, stmts, final) ==
    LET order == InOrder(Alive(players))
        idx(k) == CHOOSE i \in 1..Len(order) : order[i] = k
    IN  /\ sent' = SendTo(Alive(players))
        /\ prompt' = [k \in 1..Len(prompt) |->
                IF k \in Alive(players)
                THEN [kind |-> kind, text |-> <<>>,
                      heard |-> OthersStatements(stmts, idx(k)), final |-> final]
                ELSE prompt[k]]

\* self.log(f">>> {stmt}") for the result of every living player, in gather's order
StatementLines ==
    LET order == InOrder(Alive(players))
    IN  [k \in 1..Len(order) |-> <<">>>", players[order[k]].name>>]

Separator == <<"--------------------">>

\* `if self.game_over: break` in run_game, never taken
LoopNeverBreaks(over) == FALSE

\* `if self.game_over: break` in run_game
LoopBreaks(over) == over

\* votes[name] = ... with the increment lost when the name is already in the dict
CountVoteLost(vs, name) ==
    IF \E k \in 1..Len(vs) : vs[k][1] = name
    THEN vs
    ELSE Append(vs, <<name, 1>>)

\* votes[name] = votes.get(name, 0) + 1, the dict kept in insertion order
CountVote(vs, name) ==
    IF \E k \in 1..Len(vs) : vs[k][1] = name
    THEN [k \in 1..Len(vs) |-> IF vs[k][1] = name THEN <<name, vs[k][2] + 1>> ELSE vs[k]]
    ELSE Append(vs, <<name, 1>>)

\* max(votes.values()), for a tally that is not empty
MaxVotes(vs) ==
    CHOOSE m \in {vs[k][2] : k \in 1..Len(vs)} : \A k \in 1..Len(vs) : vs[k][2] <= m

\* [n for n, c in votes.items() if c == max_votes]
Eliminated(vs) ==
    LET RECURSIVE from(_)
        from(k) == IF k > Len(vs) THEN <<>>
                   ELSE IF vs[k][2] = MaxVotes(vs) THEN <<vs[k][1]>> \o from(k + 1)
                   ELSE from(k + 1)
    IN  from(1)

\* `day += 1` skipping a day
SkipDay(d) == d + 2

\* `day += 1` at the end of run_game's loop body
NextDay(d) == d + 1

\* the player the loop `for p in self.players: if p.name == name` stops at
FirstNamed(ps, name) ==
    CHOOSE k \in 1..Len(ps) : ps[k].name = name /\ \A j \in 1..(k - 1) : ps[j].name # name

\* medic_target = None at the start of the medic's part of the night
FreshMedicTarget == None

\* `werewolf_target == medic_target` replaced by "the medic protected someone"
IsSavedByAnyProtection(wt, mt) == mt # None

\* `werewolf_target == medic_target` taken to hold always
IsSavedAlways(wt, mt) == TRUE

\* `werewolf_target == medic_target`: the same AsyncPlayer object
IsSaved(wt, mt) == wt = mt

(***************************************************************************)
(* run_game: the day phases.                                               *)
(***************************************************************************)
\* run_game's loop head and the start of _phase_day_1 / _phase_day, up to the
\* first gather
DayBegin ==
    /\ pc = "loop"
    /\ ~game_over
    /\ game_log' = Append(game_log, <<"PHASE", day, "DAY">>)
    /\ IF day = 1
       THEN /\ narration' = narration \o
                    <<Separator,
                      <<"The sun rises upon Day 1 and the players introduce themselves.">>>>
            /\ Introduce(Alive(players))
            /\ pc' = "intro"
       ELSE /\ narration' = narration \o <<Separator, <<"The sun rises upon Day", day>>>>
            /\ Send(Alive(players), "speak", SpeakMessage(day))
            /\ pc' = "speak"
    /\ inflight' = Alive(players)
    /\ UNCHANGED <<request, vote_raw, reports, statements, failure, players, werewolf, seer, medic,
                   conv_rounds,
                   game_over, winner, day, round, votes,
                   werewolf_target, medic_target>>

\* _phase_day_1 after the introductions have been gathered
IntroDone ==
    /\ pc = "intro"
    /\ Gathered
    /\ narration' = narration \o StatementLines
    /\ statements' = Gather(NextNo)
    /\ SendHeard("notify_introductions", statements', FALSE)
    /\ inflight' = Alive(players)
    /\ pc' = "notify"
    /\ UNCHANGED <<request, vote_raw, reports, failure, players, werewolf, seer, medic, conv_rounds,
                   game_over, winner, game_log, day, round, votes,
                   werewolf_target, medic_target>>

\* _phase_day_1 returns once every notification has been delivered
NotifyDone ==
    /\ pc = "notify"
    /\ Gathered
    /\ pc' = "check_day"
    /\ statements' = <<>>
    /\ UNCHANGED <<request, vote_raw, reports, failure, players, werewolf, seer, medic, conv_rounds,
                   game_over, winner, game_log, narration, day, round, votes, inflight,
                   werewolf_target, medic_target, sent, prompt>>

\* the start of the vote: the announcement, votes = {} and one _vote task per
\* living player
BeginVote(lines) ==
    /\ narration' = (narration \o lines) \o <<<<"The players now vote to eliminate someone.">>>>
    /\ votes' = <<>>
    /\ inflight' = Alive(players)
    /\ SendHeard("vote", statements', FALSE)
    /\ vote_raw' = [k \in 1..Len(players) |-> NoReply]
    /\ pc' = "vote"
    /\ UNCHANGED round

\* the start of one pass of `for i in range(self.conv_rounds - 1)`
BeginRound(lines, i) ==
    /\ narration' = narration \o lines
    /\ round' = i
    /\ SendHeard("notify_statements", statements', i = conv_rounds - 2)
    /\ inflight' = Alive(players)
    /\ pc' = "round"
    /\ UNCHANGED <<votes, vote_raw>>

\* _phase_day after the first statements have been gathered
SpeakDone ==
    /\ pc = "speak"
    /\ Gathered
    /\ statements' = Gather(NextNo)
    /\ IF 0 < conv_rounds - 1
       THEN BeginRound(StatementLines, 0)
       ELSE BeginVote(StatementLines)
    /\ UNCHANGED <<request, reports, failure, players, werewolf, seer, medic, conv_rounds,
                   game_over, winner, game_log, day, werewolf_target, medic_target>>

\* _phase_day after the statements of one further round have been gathered
RoundDone ==
    /\ pc = "round"
    /\ Gathered
    /\ statements' = Gather(NextNo)
    /\ IF round + 1 < conv_rounds - 1
       THEN BeginRound(StatementLines, round + 1)
       ELSE BeginVote(StatementLines)
    /\ UNCHANGED <<request, reports, failure, players, werewolf, seer, medic, conv_rounds,
                   game_over, winner, game_log, day, werewolf_target, medic_target>>

\* one _vote task resumes with the reply raw of player i.  The task also resumes
\* after another task of the gather has raised: gather does not cancel it.
VoteReturn(i, raw) ==
    /\ pc \in {"vote", "failed"}
    /\ i \in inflight
    /\ inflight' = inflight \ {i}
    /\ LET vote_target == ParseName(players, raw)
       IN  IF vote_target # None
           THEN /\ narration' = Append(narration,
                        <<"votes to eliminate", players[i].name, players[vote_target].name>>)
                /\ game_log' = Append(game_log,
                        <<"VOTE", players[i].name, players[vote_target].name>>)
                /\ votes' = CountVote(votes, players[vote_target].name)
           ELSE UNCHANGED <<narration, game_log, votes>>
    /\ vote_raw' = [vote_raw EXCEPT ![i] = raw]
    /\ UNCHANGED <<request, reports, statements, pc, failure, players, werewolf, seer, medic,
                   conv_rounds,
                   game_over, winner, day, round, werewolf_target, medic_target, sent, prompt>>

\* the send of one _vote task raises and gather keeps the exception to itself
VoteSendSwallowed(i) ==
    /\ pc = "vote"
    /\ i \in inflight
    /\ inflight' = inflight \ {i}
    /\ failure' = "send"
    /\ UNCHANGED <<request, vote_raw, reports, statements, pc, players, werewolf, seer, medic,
                   conv_rounds,
                   game_over, winner, game_log, narration, day, round, votes,
                   werewolf_target, medic_target, sent, prompt>>

\* the send of one _vote task raises: gather hands the exception to run_game at once
VoteSendFails(i) ==
    /\ pc = "vote"
    /\ i \in inflight
    /\ inflight' = inflight \ {i}
    /\ pc' = "failed"
    /\ failure' = "send"
    /\ UNCHANGED <<request, vote_raw, reports, statements, players, werewolf, seer, medic,
                   conv_rounds,
                   game_over, winner, game_log, narration, day, round, votes,
                   werewolf_target, medic_target, sent, prompt>>

\* _phase_day after the votes have been gathered: the tally and the elimination
Tally ==
    /\ pc = "vote"
    /\ Gathered
    /\ IF votes = <<>>
       THEN /\ pc' = "failed"
            /\ failure' = "ValueError: max() arg is an empty sequence"
            /\ UNCHANGED <<players, narration, sent, prompt, inflight>>
       ELSE LET eliminated == Eliminated(votes)
            IN  IF Len(eliminated) = 1
                THEN /\ players' = [players EXCEPT
                            ![FirstNamed(players, eliminated[1])].is_alive = FALSE]
                     /\ Send(BroadcastTo(players'), "eliminated",
                             EliminationMessage(players[FirstNamed(players, eliminated[1])]))
                     /\ inflight' = BroadcastTo(players')
                     /\ pc' = "elim"
                     /\ UNCHANGED <<failure, narration>>
                ELSE /\ narration' = Append(narration, <<"There was a tie between", eliminated>>)
                     /\ Send(BroadcastTo(players), "tie", TieMessage(eliminated))
                     /\ inflight' = BroadcastTo(players)
                     /\ pc' = "tie"
                     /\ UNCHANGED <<failure, players>>
    /\ UNCHANGED <<request, vote_raw, reports, statements, werewolf, seer, medic, conv_rounds,
                   game_over, winner,
                   game_log, day, round, votes, werewolf_target, medic_target>>

\* after the broadcast of the elimination: the narration line and the record;
\* _phase_day returns and its locals are gone
ElimDone ==
    /\ pc = "elim"
    /\ Gathered
    /\ LET p == players[FirstNamed(players, Eliminated(votes)[1])]
       IN  /\ narration' = Append(narration, <<"The town has eliminated", p.name, p.role>>)
           /\ game_log' = Append(game_log, <<"ELIMINATED", p.name, p.role>>)
    /\ pc' = "check_day"
    /\ statements' = <<>>
    /\ votes' = <<>>
    /\ round' = 0
    /\ vote_raw' = <<>>
    /\ UNCHANGED <<request, reports, failure, players, werewolf, seer, medic, conv_rounds,
                   game_over, winner, day, inflight,
                   werewolf_target, medic_target, sent, prompt>>

\* after the broadcast of the tie, the votes of the tied vote taken back out of
\* the event log
TieDoneDropsVotes ==
    /\ pc = "tie"
    /\ Gathered
    /\ pc' = "check_day"
    /\ statements' = <<>>
    /\ votes' = <<>>
    /\ round' = 0
    /\ game_log' = SelectSeq(game_log, LAMBDA r : r[1] # "VOTE")
    /\ vote_raw' = <<>>
    /\ UNCHANGED <<request, reports, failure, players, werewolf, seer, medic, conv_rounds,
                   game_over, winner, narration, day, inflight,
                   werewolf_target, medic_target, sent, prompt>>

\* after the broadcast of the tie: _phase_day returns and its locals are gone
TieDone ==
    /\ pc = "tie"
    /\ Gathered
    /\ pc' = "check_day"
    /\ statements' = <<>>
    /\ votes' = <<>>
    /\ round' = 0
    /\ vote_raw' = <<>>
    /\ UNCHANGED <<request, reports, failure, players, werewolf, seer, medic, conv_rounds,
                   game_over, winner, game_log, narration, day, inflight,
                   werewolf_target, medic_target, sent, prompt>>

\* run_game after the day phase: the win check, then the PHASE record of the night
\* and _phase_night up to the werewolf's prompt
CheckAfterDay ==
    /\ pc = "check_day"
    /\ LET r == CheckGameOver(players, game_over, winner)
       IN  /\ game_over' = r.game_over
           /\ winner' = r.winner
           /\ IF LoopBreaks(r.game_over)
              THEN /\ pc' = "over"
                   /\ UNCHANGED <<game_log, narration, sent, prompt, inflight>>
              ELSE /\ game_log' = Append(game_log, <<"PHASE", day, "NIGHT">>)
                   /\ narration' = narration \o
                           <<Separator, <<"The sun sets as we enter Night", day>>>>
                   /\ Send({werewolf}, "kill",
                           NightPrompt(day, "Werewolf, who do you want to kill?"))
                   /\ inflight' = {werewolf}
                   /\ pc' = "wolf"
    /\ UNCHANGED <<request, vote_raw, reports, statements, failure, players, werewolf, seer, medic,
                   conv_rounds,
                   day, round, votes, werewolf_target, medic_target>>


(***************************************************************************)
(* run_game: the night phase.                                              *)
(***************************************************************************)
\* the seer's part left out when the seer is the werewolf's target
ToSeerUnlessTargeted ==
    IF players[seer].is_alive /\ werewolf_target' # seer
    THEN /\ Send({seer}, "inspect", NightPrompt(day, "Seer, who do you want to inspect?"))
         /\ inflight' = {seer}
         /\ pc' = "seer"
    ELSE /\ pc' = "resolve"
         /\ inflight' = {}
         /\ UNCHANGED <<sent, prompt>>

\* what follows the werewolf's and the medic's part: the seer's prompt if the
\* seer is alive, else the resolution
ToSeer ==
    IF players[seer].is_alive
    THEN /\ Send({seer}, "inspect", NightPrompt(day, "Seer, who do you want to inspect?"))
         /\ inflight' = {seer}
         /\ pc' = "seer"
    ELSE /\ pc' = "resolve"
         /\ inflight' = {}
         /\ UNCHANGED <<sent, prompt>>

\* _phase_night resumes with the werewolf's reply
WolfReply(raw) ==
    /\ pc = "wolf"
    /\ werewolf_target' = ParseName(players, raw)
    /\ narration' = Append(narration,
            IF werewolf_target' # None
            THEN <<"chooses to kill", players[werewolf].name, players[werewolf_target'].name>>
            ELSE <<"tries to kill unknown", players[werewolf].name, raw>>)
    /\ medic_target' = FreshMedicTarget
    /\ IF players[medic].is_alive
       THEN /\ Send({medic}, "protect",
                    NightPrompt(day, "Medic, who do you want to protect?"))
            /\ inflight' = {medic}
            /\ pc' = "medic"
       ELSE ToSeer
    /\ UNCHANGED <<request, vote_raw, reports, statements, failure, players, werewolf, seer, medic,
                   conv_rounds,
                   game_over, winner, game_log, day, round, votes>>

\* _phase_night resumes with the medic's reply
MedicReply(raw) ==
    /\ pc = "medic"
    /\ medic_target' = ParseName(players, raw)
    /\ IF medic_target' # None
       THEN /\ narration' = Append(narration,
                    <<"protects", players[medic].name, players[medic_target'].name>>)
            /\ game_log' = Append(game_log,
                    <<"MEDIC_PROTECTS", players[medic].name, players[medic_target'].name>>)
       ELSE /\ narration' = Append(narration,
                    <<"tries to protect unknown", players[medic].name, raw>>)
            /\ UNCHANGED game_log
    /\ UNCHANGED <<request, vote_raw, reports, statements, failure, players, werewolf, seer, medic,
                   conv_rounds,
                   game_over, winner, day, round, votes, werewolf_target>>
    /\ ToSeer

\* _phase_night resumes with the seer's reply and sends the seer the result
SeerReply(raw) ==
    /\ pc = "seer"
    /\ LET seer_target == ParseName(players, raw)
       IN  IF seer_target # None
           THEN /\ narration' = Append(narration,
                        <<"inspects", players[seer].name, players[seer_target].name,
                          players[seer_target].role>>)
                /\ game_log' = Append(game_log,
                        <<"SEER_SEES", players[seer].name, players[seer_target].name,
                          players[seer_target].role>>)
           ELSE /\ narration' = Append(narration,
                        <<"tries to inspect unknown", players[seer].name, raw>>)
                /\ UNCHANGED game_log
    /\ Send({seer}, "seer_result", SeerResult(players, ParseName(players, raw)))
    /\ inflight' = {seer}
    /\ pc' = "seer_result"
    /\ UNCHANGED <<request, vote_raw, reports, statements, failure, players, werewolf, seer, medic,
                   conv_rounds,
                   game_over, winner, day, round, votes,
                   werewolf_target, medic_target>>

\* the seer has received the result
SeerResultDone ==
    /\ pc = "seer_result"
    /\ pc' = "resolve"
    /\ inflight' = {}
    /\ UNCHANGED <<request, vote_raw, reports, statements, failure, players, werewolf, seer, medic,
                   conv_rounds,
                   game_over, winner, game_log, narration, day, round, votes,
                   werewolf_target, medic_target, sent, prompt>>

\* the resolution of the night and the broadcast of the summary
NightResolve ==
    /\ pc = "resolve"
    /\ IF werewolf_target # None
       THEN IF IsSaved(werewolf_target, medic_target)
            THEN /\ narration' = narration \o
                        <<<<>>, <<"was targeted but saved", players[werewolf_target].name>>, <<>>>>
                 /\ game_log' = Append(game_log, <<"SAVED", players[werewolf_target].name>>)
                 /\ UNCHANGED players
            ELSE /\ narration' = narration \o
                        <<<<>>, <<"was killed by the Werewolf", players[werewolf_target].name>>, <<>>>>
                 /\ game_log' = Append(game_log,
                        <<"KILLED", players[werewolf_target].name, players[werewolf_target].role>>)
                 /\ players' = [players EXCEPT ![werewolf_target].is_alive = FALSE]
       ELSE /\ narration' = narration \o
                    <<<<>>, <<"No kills occurred during the night.">>, <<>>>>
            /\ UNCHANGED <<game_log, players>>
    /\ Send(BroadcastTo(players'), "night_summary",
            NightSummary(players, werewolf_target, IsSaved(werewolf_target, medic_target)))
    /\ inflight' = BroadcastTo(players')
    /\ pc' = "summary"
    /\ UNCHANGED <<request, vote_raw, reports, statements, failure, werewolf, seer, medic, conv_rounds,
                   game_over, winner, day, round, votes,
                   werewolf_target, medic_target>>

\* the summary has been delivered: _phase_night returns and its locals are gone
SummaryDone ==
    /\ pc = "summary"
    /\ Gathered
    /\ pc' = "check_night"
    /\ werewolf_target' = None
    /\ medic_target' = None
    /\ UNCHANGED <<request, vote_raw, reports, statements, failure, players, werewolf, seer, medic,
                   conv_rounds,
                   game_over, winner, game_log, narration, day, round, votes, inflight,
                   sent, prompt>>

\* run_game after the night phase: the win check and day += 1
CheckAfterNight ==
    /\ pc = "check_night"
    /\ LET r == CheckGameOver(players, game_over, winner)
       IN  /\ game_over' = r.game_over
           /\ winner' = r.winner
           /\ IF LoopBreaks(r.game_over)
              THEN /\ pc' = "over"
                   /\ UNCHANGED day
              ELSE /\ day < MaxDay
                   /\ day' = NextDay(day)
                   /\ pc' = "loop"
    /\ UNCHANGED <<request, vote_raw, reports, statements, failure, players, werewolf, seer, medic,
                   conv_rounds,
                   game_log, narration, round, votes, inflight,
                   werewolf_target, medic_target, sent, prompt>>

\* the end of run_game and of Agent.run: the closing lines, the evaluation
\* (which only reads) and the result artifact
Finish ==
    /\ pc = "over"
    /\ narration' = narration \o <<<<"--- GAME OVER ---">>, <<"The winner is:", winner>>>>
    /\ reports' = GetReports(players, game_log, winner)
    /\ pc' = "done"
    /\ UNCHANGED <<request, vote_raw, statements, failure, players, werewolf, seer, medic, conv_rounds,
                   game_over, winner, game_log, day, round, votes, inflight,
                   werewolf_target, medic_target, sent, prompt>>

\* the control points at which run_game awaits a gather whose tasks end with
\* the return of their send
GatherPcs == {"intro", "notify", "speak", "round", "elim", "tie", "summary"}

\* the awaits other than the gather of the votes, and the sends each still waits for
Awaited ==
    IF pc \in GatherPcs \cup {"wolf", "medic", "seer", "seer_result"} THEN inflight ELSE {}

\* the sends to the players of S return; each of these tasks of a gather has
\* nothing left to do but to hand back the reply
SendReturns(S) ==
    /\ pc \in GatherPcs
    /\ S # {} /\ S \subseteq inflight
    /\ inflight' = inflight \ S
    /\ UNCHANGED <<request, vote_raw, reports, statements, pc, failure, players, werewolf, seer, medic,
                   conv_rounds,
                   game_over, winner, game_log, narration, day, round, votes,
                   werewolf_target, medic_target, sent, prompt>>

\* a send raises while run_game awaits it: the exception leaves run_game and
\* Agent.run.  The other tasks of a gather run on, with nothing left to do but to
\* return a reply nobody receives; they are dropped here.
SendFails ==
    /\ Awaited # {}
    /\ pc' = "failed"
    /\ failure' = "send"
    /\ inflight' = {}
    /\ UNCHANGED <<request, vote_raw, reports, statements, players, werewolf, seer, medic,
                   conv_rounds,
                   game_over, winner, game_log, narration, day, round, votes,
                   werewolf_target, medic_target, sent, prompt>>

\* the reply texts the players of a whole game answer with
Replies == {"NONE", " ALICE ", "I vote for Bob!"}

\* the reply text the seer answers with; it resolves while a player named Alice
\* is alive and does not afterwards
SeerReplies == {" ALICE "}

\* the schedule the whole-game specification follows through the gather of the
\* votes: the sends complete in roster order
InRosterOrder(i) == \A j \in inflight : i <= j

\* the schedule it follows through the other gathers: the sends complete together
Together(S) == S = inflight

Next ==
    \/ Construct
    \/ DayBegin
    \/ IntroDone
    \/ NotifyDone
    \/ SpeakDone
    \/ RoundDone
    \/ \E S \in SUBSET (1..Len(players)) : Together(S) /\ SendReturns(S)
    \/ \E i \in 1..Len(players), raw \in Replies : InRosterOrder(i) /\ VoteReturn(i, raw)
    \/ \E i \in 1..Len(players) : InRosterOrder(i) /\ VoteSendFails(i)
    \/ Tally
    \/ ElimDone
    \/ TieDone
    \/ CheckAfterDay
    \/ \E raw \in Replies : WolfReply(raw)
    \/ \E raw \in Replies : MedicReply(raw)
    \/ \E raw \in SeerReplies : SeerReply(raw)
    \/ SeerResultDone
    \/ NightResolve
    \/ SummaryDone
    \/ CheckAfterNight
    \/ Finish
    \/ SendFails

Spec == Init /\ [][Next]_vars


(***************************************************************************)
(* Whole games whose days have one and three rounds of statements.         *)
(***************************************************************************)
InitDiscussion ==
    /\ request \in DiscussionRequests
    /\ InitFields

SpecDiscussion == InitDiscussion /\ [][Next]_vars

(***************************************************************************)
(* Roster construction alone, over every accepted and rejected player      *)
(* count.                                                                  *)
(***************************************************************************)
InitRoster ==
    /\ request \in RosterRequests
    /\ InitFields

NextRoster == Construct

SpecRoster == InitRoster /\ [][NextRoster]_vars

(***************************************************************************)
(* Games up to the win check after the last day, every send returning and  *)
(* the replies of a vote arriving in any order.                            *)
(***************************************************************************)
InitVote ==
    /\ request \in VoteRequests
    /\ InitFields

\* the event loop resumes the _vote tasks in the order their replies arrive
AnyOrder(i) == i \in inflight

\* the reply text the medic answers with in these games
ProtectReplies == {" ALICE "}

NextVote ==
    \/ Construct
    \/ DayBegin
    \/ IntroDone
    \/ NotifyDone
    \/ SpeakDone
    \/ \E S \in SUBSET (1..Len(players)) : Together(S) /\ SendReturns(S)
    \/ \E i \in 1..Len(players), raw \in Replies : AnyOrder(i) /\ VoteReturn(i, raw)
    \/ Tally
    \/ ElimDone
    \/ TieDone
    \/ day < MaxDay /\ CheckAfterDay
    \/ \E raw \in Replies : WolfReply(raw)
    \/ \E raw \in ProtectReplies : MedicReply(raw)
    \/ \E raw \in SeerReplies : SeerReply(raw)
    \/ SeerResultDone
    \/ NightResolve
    \/ SummaryDone
    \/ CheckAfterNight

SpecVote == InitVote /\ [][NextVote]_vars


(***************************************************************************)
(* Games in which every send returns, every vote has a reply that resolves *)
(* and the werewolf's reply of every night resolves to a living player the *)
(* medic does not protect that night.  The event loop runs every           *)
(* continuation that is ready, so run_game is not left waiting for ever.   *)
(***************************************************************************)
InitTermination ==
    /\ request \in TerminationRequests
    /\ InitFields

\* the werewolf's reply texts in these games: NONE or the name of a living player
NameReplies == {"NONE"} \cup {players[k].name : k \in Alive(players)}

\* the voters' reply texts: NONE or the name of one of the first two living players
VoteReplies ==
    {"NONE"} \cup {players[k].name :
                      k \in {k \in Alive(players) :
                                Cardinality({j \in Alive(players) : j < k}) < 2}}

\* the medic's reply texts
MedicReplies == {"NONE", " ALICE "}

\* the reply that completes a vote leaves a tally that is not empty
SomeVoteResolves == inflight' = {} => votes' # <<>>

\* the werewolf's reply resolves
KillResolves == werewolf_target' # None

\* the medic's reply does not resolve to the werewolf's target
KillNotPrevented == medic_target' # werewolf_target

NextTermination ==
    \/ Construct
    \/ DayBegin
    \/ IntroDone
    \/ NotifyDone
    \/ SpeakDone
    \/ \E S \in SUBSET (1..Len(players)) : Together(S) /\ SendReturns(S)
    \/ \E i \in 1..Len(players), raw \in VoteReplies :
            InRosterOrder(i) /\ VoteReturn(i, raw) /\ SomeVoteResolves
    \/ Tally
    \/ ElimDone
    \/ TieDone
    \/ CheckAfterDay
    \/ \E raw \in NameReplies : WolfReply(raw) /\ KillResolves
    \/ \E raw \in MedicReplies : MedicReply(raw) /\ KillNotPrevented
    \/ \E raw \in SeerReplies : SeerReply(raw)
    \/ SeerResultDone
    \/ NightResolve
    \/ SummaryDone
    \/ CheckAfterNight
    \/ Finish

SpecTermination == InitTermination /\ [][NextTermination]_vars /\ WF_vars(NextTermination)


(***************************************************************************)
(* check_game_over alone, over every alive/dead assignment of a roster.    *)
(***************************************************************************)
InitCheck ==
    /\ \E n \in 0..MaxCheckPlayers :
       \E roles \in Shuffles(n) :
       \E alive \in [1..n -> BOOLEAN] :
            /\ request = [participants |-> <<>>, config |-> [player_count |-> n]]
            /\ players = [k \in 1..n |->
                    [AssignRoles(<<>>, n, roles)[k] EXCEPT !.is_alive = alive[k]]]
            /\ sent = [k \in 1..n |-> 0]
            /\ prompt = [k \in 1..n |-> NoMessage]
    /\ werewolf = Holder(players, "Werewolf")
    /\ seer = Holder(players, "Seer")
    /\ medic = Holder(players, "Medic")
    /\ conv_rounds = CONVERSATION_ROUNDS
    /\ pc = "check"
    /\ failure = "none"
    /\ game_over = FALSE
    /\ winner = "None"
    /\ game_log = <<>>
    /\ narration = <<>>
    /\ day = 1
    /\ round = 0
    /\ votes = <<>>
    /\ inflight = {}
    /\ werewolf_target = None
    /\ medic_target = None
    /\ reports = <<>>
    /\ statements = <<>>
    /\ vote_raw = <<>>

\* one call of check_game_over
CheckGameOverCall ==
    /\ pc = "check"
    /\ LET r == CheckGameOver(players, game_over, winner)
       IN  /\ game_over' = r.game_over
           /\ winner' = r.winner
    /\ pc' = "checked"
    /\ UNCHANGED <<request, vote_raw, reports, statements, failure, players, werewolf, seer, medic,
                   conv_rounds,
                   game_log, narration, day, round, votes, inflight,
                   werewolf_target, medic_target, sent, prompt>>

NextCheck == CheckGameOverCall

SpecCheck == InitCheck /\ [][NextCheck]_vars


(***************************************************************************)
(* Scoring alone: run_game has ended with some winner and an event log in  *)
(* which votes were cast on day 2 and on day 3; Finish evaluates it.       *)
(***************************************************************************)
\* the event log of a game in which the votes cast were `cast`, one a day
VoteLog(ps, cast) ==
    LET vote(c) == <<"VOTE", ps[c[1]].name, ps[c[2]].name>>
    IN  <<<<"PHASE", 1, "DAY">>, <<"PHASE", 1, "NIGHT">>,
          <<"MEDIC_PROTECTS", ps[Holder(ps, "Medic")].name, ps[1].name>>,
          <<"PHASE", 2, "DAY">>>>
        \o (IF Len(cast) >= 1 THEN <<vote(cast[1])>> ELSE <<>>)
        \o (IF Len(cast) >= 2
            THEN <<<<"PHASE", 2, "NIGHT">>, <<"PHASE", 3, "DAY">>, vote(cast[2])>>
            ELSE <<>>)

InitReports ==
    /\ \E p \in Participants({"Alice"}, MaxRemote) :
       \E n \in 3..MaxPlayers :
       \E roles \in Shuffles(n) :
       \E cast \in UNION {[1..len -> (1..n) \X (1..n)] : len \in 0..MaxVoteRecords} :
            /\ request = [participants |-> p, config |-> [player_count |-> n]]
            /\ players = AssignRoles(p, n, roles)
            /\ game_log = VoteLog(players, cast)
            /\ sent = [k \in 1..n |-> 0]
            /\ prompt = [k \in 1..n |-> NoMessage]
    /\ werewolf = Holder(players, "Werewolf")
    /\ seer = Holder(players, "Seer")
    /\ medic = Holder(players, "Medic")
    /\ conv_rounds = CONVERSATION_ROUNDS
    /\ pc = "over"
    /\ failure = "none"
    /\ game_over = TRUE
    /\ winner \in {"Villagers", "Werewolves"}
    /\ narration = <<>>
    /\ day = 3
    /\ round = 0
    /\ votes = <<>>
    /\ inflight = {}
    /\ werewolf_target = None
    /\ medic_target = None
    /\ reports = <<>>
    /\ statements = <<>>
    /\ vote_raw = <<>>

NextReports == Finish

SpecReports == InitReports /\ [][NextReports]_vars


(***************************************************************************)
(* Properties.                                                             *)
(***************************************************************************)
Winners == {"Villagers", "Werewolves"}

RecordsOf(log, kinds) == SelectSeq(log, LAMBDA r : r[1] \in kinds)

NightPcs == {"wolf", "medic", "seer", "seer_result", "resolve", "summary"}

\* C1: once game_over is true the winner is Villagers or Werewolves, game_over and
\* winner never change again, and no further phase runs: no record is appended to
\* the event log, no send is made, no alive flag changes, the day stays, and
\* control is at the end of run_game.
C1_WinCheckMonotonic ==
    [][/\ game_over' => (winner' \in Winners /\ pc' \in {"over", "done"})
       /\ game_over =>
            /\ game_over' /\ winner' = winner
            /\ game_log' = game_log /\ sent' = sent /\ players' = players
            /\ day' = day /\ inflight' = inflight
            /\ pc' \in {"over", "done"}]_vars

\* a game that was played into day 2 and then ended, its result delivered
C1_Witness ==
    /\ pc = "done" /\ game_over /\ winner = "Villagers"
    /\ day = 2
    /\ Len(RecordsOf(game_log, {"VOTE"})) > 0

\* C2: check_game_over on any alive/dead assignment: no living Werewolf gives
\* Villagers; else living Werewolves >= living others gives Werewolves; else
\* game_over stays false and winner stays unset.
C2_CheckGameOver ==
    pc = "checked" =>
        LET living == {k \in 1..Len(players) : players[k].is_alive}
            wolves == {k \in living : players[k].role = "Werewolf"}
            others == living \ wolves
        IN  /\ wolves = {} => (game_over /\ winner = "Villagers")
            /\ (wolves # {} /\ Cardinality(wolves) >= Cardinality(others)) =>
                    (game_over /\ winner = "Werewolves")
            /\ (wolves # {} /\ Cardinality(wolves) < Cardinality(others)) =>
                    (~game_over /\ winner = "None")

\* a living Werewolf with no living non-Werewolf: Werewolves
C2_Witness ==
    /\ pc = "checked" /\ winner = "Werewolves"
    /\ Len(players) >= 3
    /\ \A k \in 1..Len(players) : players[k].is_alive <=> players[k].role = "Werewolf"

PhaseRecords == RecordsOf(game_log, {"PHASE"})

\* the j-th PHASE record of a game: 1:DAY, 1:NIGHT, 2:DAY, 2:NIGHT, ...
ExpectedPhase(j) == <<"PHASE", (j + 1) \div 2, IF j % 2 = 1 THEN "DAY" ELSE "NIGHT">>

PhasePosition ==
    LET n == Len(PhaseRecords)
    IN  /\ \A j \in 1..n : PhaseRecords[j] = ExpectedPhase(j)
        /\ day >= 1
        /\ pc \in {"start", "error"} => n = 0
        /\ pc = "loop" => n = 2 * (day - 1)
        /\ pc \in {"intro", "notify"} => (day = 1 /\ n = 1)
        /\ pc \in {"speak", "round", "vote", "elim", "tie"} => (day >= 2 /\ n = 2 * day - 1)
        /\ pc = "check_day" => n = 2 * day - 1
        /\ pc \in NightPcs \cup {"check_night"} => n = 2 * day

PhaseOrder ==
    {<<"start", "loop">>, <<"start", "error">>,
     <<"loop", "intro">>, <<"intro", "notify">>, <<"notify", "check_day">>,
     <<"loop", "speak">>, <<"speak", "round">>, <<"speak", "vote">>, <<"round", "vote">>,
     <<"vote", "elim">>, <<"vote", "tie">>, <<"elim", "check_day">>, <<"tie", "check_day">>,
     <<"check_day", "wolf">>, <<"check_day", "over">>,
     <<"wolf", "medic">>, <<"wolf", "seer">>, <<"wolf", "resolve">>,
     <<"medic", "seer">>, <<"medic", "resolve">>,
     <<"seer", "seer_result">>, <<"seer_result", "resolve">>,
     <<"resolve", "summary">>, <<"summary", "check_night">>,
     <<"check_night", "loop">>, <<"check_night", "over">>, <<"over", "done">>}

\* C3: the phases run in the order Day-1 introduction, win check, Night 1, win check,
\* then Day discussion, Day vote, win check, Night, win check, and so on; the day
\* counter starts at 1 and grows by exactly 1 only after a night whose win check
\* did not end the game; the PHASE records are 1:DAY, 1:NIGHT, 2:DAY, 2:NIGHT, ...
\* without gap, repeat or reordering.
C3_PhaseOrder ==
    [][/\ PhasePosition'
       /\ day' # day => (pc = "check_night" /\ day' = day + 1 /\ ~game_over')
       /\ (pc' # pc /\ pc' # "failed") => <<pc, pc'>> \in PhaseOrder
       /\ (pc = "loop" /\ pc' = "intro") => day = 1
       /\ (pc = "loop" /\ pc' = "speak") => day >= 2]_vars

\* the second night has been resolved after a full second day
C3_Witness ==
    /\ pc = "summary" /\ day = 2
    /\ PhaseRecords = <<ExpectedPhase(1), ExpectedPhase(2), ExpectedPhase(3), ExpectedPhase(4)>>

\* C4: a day vote in which no reply resolves to a living player does not fail: the
\* tally of zero votes eliminates nobody and the game goes on to the win check.
C4_ZeroVotesNoFailure ==
    ~(votes = <<>> /\ inflight = {} /\ pc = "failed"
      /\ failure = "ValueError: max() arg is an empty sequence")

\* the names holding the maximum of the tally
TopNames(vs) ==
    {vs[k][1] : k \in {k \in 1..Len(vs) : \A j \in 1..Len(vs) : vs[j][2] <= vs[k][2]}}

\* C5: in the tally of a vote with at least one vote cast: a single top name means
\* exactly the living player of that name goes from alive to not alive, and the
\* ELIMINATED record that follows carries that name and the role of a player of
\* that name; several top names mean no alive flag changes, no ELIMINATED record,
\* and the tie announcement lists every tied name.
C5_TallyOutcome ==
    [][/\ (pc = "vote" /\ pc' \in {"elim", "tie"}) =>
            IF Cardinality(TopNames(votes)) = 1
            THEN /\ pc' = "elim"
                 /\ \E k \in Alive(players) :
                        /\ players[k].name \in TopNames(votes)
                        /\ players' = [players EXCEPT ![k].is_alive = FALSE]
            ELSE /\ pc' = "tie"
                 /\ players' = players
                 /\ game_log' = game_log
                 /\ Len(narration') = Len(narration) + 1
                 /\ narration'[Len(narration')][1] = "There was a tie between"
                 /\ {narration'[Len(narration')][2][k] :
                        k \in 1..Len(narration'[Len(narration')][2])} = TopNames(votes)
       /\ (pc = "elim" /\ pc' = "check_day") =>
            \E k \in 1..Len(players) :
                /\ players[k].name \in TopNames(votes)
                /\ game_log' = Append(game_log, <<"ELIMINATED", players[k].name, players[k].role>>)
       /\ (pc = "tie" /\ pc' = "check_day") => game_log' = game_log]_vars

\* the records appended since the last PHASE record
ThisPhase(log) ==
    LET marks == {k \in 1..Len(log) : log[k][1] = "PHASE"}
        last == CHOOSE k \in marks : \A j \in marks : j <= k
    IN  SubSeq(log, last + 1, Len(log))

\* the medic's MEDIC_PROTECTS record of the current night names the player
ProtectedTonight(name) ==
    \E k \in 1..Len(ThisPhase(game_log)) :
        /\ ThisPhase(game_log)[k][1] = "MEDIC_PROTECTS"
        /\ ThisPhase(game_log)[k][3] = name

\* C6: at the resolution of a night with the werewolf's resolved target T: if the
\* medic protected T in this night, T stays alive and SAVED:T is appended; if not
\* (the medic is dead, did not resolve, or protected someone else, or protected T
\* only in an earlier night), T goes from alive to not alive and KILLED:T:role is
\* appended; with no resolved target nothing changes.
C6_NightResolution ==
    [][(pc = "resolve" /\ pc' = "summary") =>
            IF werewolf_target = None
            THEN players' = players /\ game_log' = game_log
            ELSE LET T == players[werewolf_target]
                 IN  /\ T.is_alive
                     /\ IF ProtectedTonight(T.name)
                        THEN /\ players' = players
                             /\ game_log' = Append(game_log, <<"SAVED", T.name>>)
                        ELSE /\ players' = [players EXCEPT ![werewolf_target].is_alive = FALSE]
                             /\ game_log' = Append(game_log, <<"KILLED", T.name, T.role>>)]_vars

\* a player saved in one night is killed in a later night, the medic being dead
C6_Witness ==
    /\ pc = "summary"
    /\ medic # None /\ ~players[medic].is_alive
    /\ \E k \in 1..Len(game_log) :
            /\ game_log[k][1] = "SAVED"
            /\ game_log[Len(game_log)] = <<"KILLED", game_log[k][2], players[werewolf_target].role>>

\* C7: every ELIMINATED or KILLED record stands for exactly one player who went
\* from alive to dead: between phases the number of dead players equals the
\* number of ELIMINATED and KILLED records.
C7_OneDeathPerEvent ==
    pc \notin {"elim", "failed"} =>
        Cardinality({k \in 1..Len(players) : ~players[k].is_alive})
            = Len(RecordsOf(game_log, {"ELIMINATED", "KILLED"}))

RequestRounds == ConfigGet(request.config, "conversation_rounds", CONVERSATION_ROUNDS)

RequestCount == ConfigGet(request.config, "player_count", MIN_GAME_SIZE)

RolesHeld(role) == {k \in 1..Len(players) : players[k].role = role}

\* C8: for player_count in 3..10 and at most player_count remote participants the
\* roster has exactly player_count players, one Werewolf, one Seer, one Medic and
\* player_count - 3 Villagers; the remote participants come first under their own
\* names and the other seats take the first names of the pool in pool order.
C8_Roster ==
    (pc = "loop" /\ RequestCount \in 3..10 /\ Len(request.participants) <= RequestCount) =>
        LET rc == Len(request.participants)
        IN  /\ Len(players) = RequestCount
            /\ Cardinality(RolesHeld("Werewolf")) = 1
            /\ Cardinality(RolesHeld("Seer")) = 1
            /\ Cardinality(RolesHeld("Medic")) = 1
            /\ Cardinality(RolesHeld("Villager")) = RequestCount - 3
            /\ werewolf \in RolesHeld("Werewolf")
            /\ seer \in RolesHeld("Seer")
            /\ medic \in RolesHeld("Medic")
            /\ \A k \in 1..Len(players) :
                    /\ players[k].is_alive
                    /\ players[k].is_remote <=> k <= rc
                    /\ k <= rc => players[k].name = request.participants[k]
                    /\ k > rc => players[k].name = DEFAULT_PLAYERS[k - rc]

\* a full roster of ten with two remote participants
C8_Witness ==
    /\ pc = "loop"
    /\ Len(players) = 10
    /\ Len(request.participants) = 2
    /\ RequestCount = 10

\* C9: when max(player_count, remote count) is below 3 the construction fails and
\* no roster is produced.
C9_SmallRosterRejected ==
    Max(RequestCount, Len(request.participants)) < 3 =>
        (pc \in {"start", "error"} /\ players = <<>>)

\* C10: when conversation_rounds is outside 1..5 or max(player_count, remote count)
\* is above 10, the construction fails before anything else happens: no player is
\* created or sent a message, nothing is narrated or logged, run_game never starts.
C10_ConfigErrorsFatal ==
    (RequestRounds < 1 \/ RequestRounds > 5
        \/ Max(RequestCount, Len(request.participants)) > 10) =>
        /\ pc \in {"start", "error"}
        /\ pc = "error" => failure \in {"ValueError: conversation_rounds", "ValueError: players"}
        /\ players = <<>> /\ sent = <<>>
        /\ game_log = <<>> /\ narration = <<>>
        /\ ~game_over /\ winner = "None"

\* the construction has failed on a player count above the pool, the rounds being fine
C10_Witness ==
    /\ pc = "error"
    /\ RequestRounds \in 1..5
    /\ RequestCount > 10
    /\ Len(request.participants) = 1

\* the VOTE records cast under a name
VotesCastBy(name) == SelectSeq(game_log, LAMBDA r : r[1] = "VOTE" /\ r[2] = name)

\* C11: in the reports of a finished game, a player's report contains
\* voting_accuracy if and only if the player is not the Werewolf and the log holds
\* a VOTE record cast by the player; the value is the number of the player's
\* votes that name the Werewolf divided by the number of the player's votes; the
\* Werewolf's report never contains it.
C11_VotingAccuracy ==
    pc = "done" =>
        \A k \in 1..Len(players) :
            LET me == players[k]
                rep == reports[me.name]
                cast == VotesCastBy(me.name)
                hits == SelectSeq(cast, LAMBDA r : r[3] = players[werewolf].name)
            IN  /\ ("voting_accuracy" \in DOMAIN rep) <=> (me.role # "Werewolf" /\ cast # <<>>)
                /\ ("voting_accuracy" \in DOMAIN rep) =>
                        rep.voting_accuracy = <<Len(hits), Len(cast)>>

\* the same for rosters in which no two players share a name
C11_DistinctNamesProbe ==
    (\A a, b \in 1..Len(players) : a # b => players[a].name # players[b].name)
        => C11_VotingAccuracy

\* a voter with one vote of two on the Werewolf
C11_HalfProbe ==
    /\ pc = "done"
    /\ \E k \in 1..Len(players) :
            /\ "voting_accuracy" \in DOMAIN reports[players[k].name]
            /\ reports[players[k].name].voting_accuracy = <<1, 2>>

\* C12: a failing send is not recovered: the step in which a send fails ends
\* run_game with that error, and from then on no prompt is sent, no phase is
\* entered, game_over stays false, winner stays unset, no alive flag changes and
\* the result (winner, reports, event log) is never produced.
C12_SendFailureFatal ==
    [][/\ failure' = "send" =>
            /\ pc' = "failed"
            /\ ~game_over' /\ winner' = "None" /\ reports' = <<>>
       /\ (failure = "none" /\ failure' = "send") =>
            /\ inflight # {}
            /\ sent' = sent /\ players' = players /\ game_log' = game_log
       /\ failure = "send" =>
            /\ failure' = "send"
            /\ sent' = sent /\ players' = players /\ day' = day
            /\ RecordsOf(game_log', {"PHASE", "ELIMINATED", "KILLED", "SAVED"})
                    = RecordsOf(game_log, {"PHASE", "ELIMINATED", "KILLED", "SAVED"})]_vars

\* the gather of the votes has failed on day 2 after one vote was counted, another
\* send of it still being outstanding
C12_Witness ==
    /\ pc = "failed" /\ failure = "send"
    /\ day = 2 /\ votes # <<>> /\ inflight # {}

IsPrefix(a, b) == Len(a) <= Len(b) /\ SubSeq(b, 1, Len(a)) = a

\* C13: the event log is append-only: in every step the old log is a prefix of
\* the new one, so no record is removed, changed or reordered; the step in which
\* get_reports is evaluated leaves the log and the roster as they are.
C13_LogAppendOnly ==
    [][/\ IsPrefix(game_log, game_log')
       /\ (pc = "over" /\ pc' = "done") =>
            /\ DOMAIN reports' = {players[k].name : k \in 1..Len(players)}
            /\ game_log' = game_log /\ players' = players]_vars

\* the reports have been computed from a log that holds votes and a death
C13_Witness ==
    /\ pc = "done" /\ reports # <<>>
    /\ Len(RecordsOf(game_log, {"VOTE"})) >= 2
    /\ Len(RecordsOf(game_log, {"KILLED"})) >= 1
    /\ Len(RecordsOf(game_log, {"PHASE"})) >= 3

\* C14: every roster that is built has pairwise distinct names, compared without
\* regard to case.
C14_DistinctNames ==
    pc = "loop" =>
        \A a, b \in 1..Len(players) :
            a # b => Lower(Chars(players[a].name)) # Lower(Chars(players[b].name))

\* the control points at which a fan-out step is awaited
FanOutPcs == GatherPcs \cup {"vote"}

\* C15: the sends of a fan-out step (introduction, introduction broadcast, first
\* statements, each later round, vote, and the broadcasts) are issued together, to
\* every living player, and only while no send is outstanding; while a send of the
\* step is outstanding no further send is issued, the step is not left for the
\* next one, the tally, an elimination or a win check, and no player's alive
\* flag or role is written.
C15_Barrier ==
    [][/\ (pc \in FanOutPcs \cup {"failed"} /\ inflight # {}) =>
            /\ sent' = sent /\ prompt' = prompt
            /\ players' = players
            /\ game_over' = game_over /\ winner' = winner
            /\ pc' \in {pc, "failed"}
       /\ (pc' \in FanOutPcs /\ sent' # sent) =>
            /\ inflight = {}
            /\ inflight' = Alive(players')
            /\ \A k \in 1..Len(players) :
                    sent'[k] = IF k \in inflight' THEN sent[k] + 1 ELSE sent[k]
       /\ (pc \in FanOutPcs /\ pc' \notin {pc, "failed"}) => inflight = {}]_vars

\* the vote of day 2 with one vote counted and another send still outstanding
C15_Witness ==
    /\ pc = "vote" /\ day = 2
    /\ votes # <<>>
    /\ inflight # {} /\ inflight # Alive(players)

\* the control points of a night before the summary
NightActionPcs == {"wolf", "medic", "seer", "seer_result", "resolve"}

\* C16: a night runs in the order werewolf prompt and reply, medic prompt and
\* reply if the medic is alive, seer prompt and reply if the seer is alive with
\* the result message to the seer right after, resolution, summary broadcast;
\* before the summary at most one send is outstanding, and no alive flag is
\* written before the resolution, so a medic or seer the werewolf has chosen
\* still acts in that night.
C16_NightOrder ==
    [][/\ (pc = "check_day" /\ pc' # "over") =>
            (pc' = "wolf" /\ prompt'[werewolf].kind = "kill")
       /\ (pc = "wolf" /\ pc' # "failed") =>
            pc' = IF players[medic].is_alive THEN "medic"
                  ELSE IF players[seer].is_alive THEN "seer" ELSE "resolve"
       /\ (pc = "medic" /\ pc' # "failed") =>
            pc' = IF players[seer].is_alive THEN "seer" ELSE "resolve"
       /\ (pc = "seer" /\ pc' # "failed") =>
            (pc' = "seer_result" /\ prompt'[seer].kind = "seer_result"
                /\ sent' = [sent EXCEPT ![seer] = @ + 1])
       /\ (pc = "seer_result" /\ pc' # "failed") => pc' = "resolve"
       /\ (pc = "resolve" /\ pc' # "failed") =>
            (pc' = "summary" /\ inflight' = Alive(players')
                /\ \A k \in inflight' : prompt'[k].kind = "night_summary")
       /\ pc' = "medic" => (inflight' = {medic} /\ prompt'[medic].kind = "protect")
       /\ pc' = "seer" => (inflight' = {seer} /\ prompt'[seer].kind = "inspect")
       /\ pc' \in NightActionPcs =>
            (Cardinality(inflight') <= 1 /\ (pc' # pc => sent' = SendTo(inflight')))
       /\ (pc \in NightActionPcs /\ pc # "resolve") => players' = players]_vars

\* the seer was the werewolf's target, inspected and received the result in that
\* night, and is dead at the summary
C16_Witness ==
    /\ pc = "summary"
    /\ werewolf_target = seer /\ ~players[seer].is_alive
    /\ prompt[seer].kind = "seer_result"
    /\ \E k \in 1..Len(ThisPhase(game_log)) : ThisPhase(game_log)[k][1] = "SEER_SEES"
    /\ game_log[Len(game_log)][1] = "KILLED"

\* the first player in roster order who is alive and whose lowercased name occurs
\* in the lowercased reply, None when there is none
FirstLivingNamed(raw) ==
    LET hits == {k \in 1..Len(players) :
                    /\ players[k].is_alive
                    /\ IsSubstring(Lower(Chars(players[k].name)), Lower(Chars(raw)))}
    IN  IF hits = {} THEN None ELSE CHOOSE k \in hits : \A j \in hits : k <= j

\* the kill, the protection and the vote resolve a reply to FirstLivingNamed
C17_Resolves ==
    /\ \A raw \in Replies : WolfReply(raw) => werewolf_target' = FirstLivingNamed(raw)
    /\ \A raw \in Replies : MedicReply(raw) => medic_target' = FirstLivingNamed(raw)
    /\ \A raw \in SeerReplies : SeerReply(raw) =>
            IF FirstLivingNamed(raw) = None
            THEN game_log' = game_log
            ELSE game_log' = Append(game_log,
                    <<"SEER_SEES", players[seer].name, players[FirstLivingNamed(raw)].name,
                      players[FirstLivingNamed(raw)].role>>)
    /\ \A i \in 1..Len(players), raw \in Replies : VoteReturn(i, raw) =>
            IF FirstLivingNamed(raw) = None
            THEN game_log' = game_log /\ votes' = votes /\ pc' = pc
            ELSE game_log' = Append(game_log,
                    <<"VOTE", players[i].name, players[FirstLivingNamed(raw)].name>>)

\* a vote in which a reply did not resolve goes on to an elimination or a tie
C17_PhaseContinues ==
    (/\ pc = "vote" /\ inflight = {}
     /\ Len(RecordsOf(ThisPhase(game_log), {"VOTE"})) < Cardinality(Alive(players)))
        => pc' \in {"elim", "tie"}

\* C17: every reply is resolved to the first player in roster order who is alive
\* and whose lowercased name occurs in the lowercased reply, to no player when
\* there is none, never to a dead player; a vote reply that does not resolve
\* appends no VOTE record, adds nothing to the tally, and the phase continues.
C17_NameResolution == [][C17_Resolves /\ C17_PhaseContinues]_vars

\* the resolution alone
C17_ResolutionProbe == [][C17_Resolves]_vars

\* player k is sent exactly the statements numbered no of every other living player
HeardOthers(k, no) ==
    /\ Len(prompt'[k].heard) = Cardinality(Alive(players)) - 1
    /\ {prompt'[k].heard[j] : j \in 1..Len(prompt'[k].heard)}
            = {[by |-> other, no |-> no] : other \in Alive(players) \ {k}}

\* C18: on every day from the second on, every living player is asked for a
\* statement conv_rounds times and then once for a vote; the prompt of every round
\* after the first and the vote prompt carry exactly the statements of the round
\* before from every other living player, never the recipient's own and none of
\* an earlier round; the prompt is marked final in the last of the further
\* rounds and in no other.
C18_Discussion ==
    [][/\ (pc = "loop" /\ pc' = "speak") =>
            /\ day >= 2
            /\ \A k \in Alive(players) :
                    /\ prompt'[k] = Message("speak", SpeakMessage(day'))
                    /\ sent'[k] = sent[k] + 1
       /\ (pc \in {"speak", "round"} /\ pc' = "round" /\ sent' # sent) =>
            /\ round' = IF pc = "speak" THEN 0 ELSE round + 1
            /\ round' + 2 <= conv_rounds
            /\ \A k \in Alive(players) :
                    /\ prompt'[k].kind = "notify_statements"
                    /\ HeardOthers(k, round' + 1)
                    /\ prompt'[k].final <=> (round' + 2 = conv_rounds)
                    /\ sent'[k] = sent[k] + 1
       /\ (pc \in {"speak", "round"} /\ pc' = "vote") =>
            /\ IF pc = "speak" THEN conv_rounds = 1 ELSE round + 2 = conv_rounds
            /\ \A k \in Alive(players) :
                    /\ prompt'[k].kind = "vote"
                    /\ HeardOthers(k, conv_rounds)
                    /\ sent'[k] = sent[k] + 1
       /\ pc \in {"speak", "round", "vote"} =>
            \A k \in 1..Len(players) : ~players[k].is_alive => sent'[k] = sent[k]
       /\ (pc = "vote" /\ pc' \in {"vote", "failed"}) => sent' = sent]_vars

\* day 2 of a game of three rounds: a player is dead, the vote prompts are out
C18_Witness ==
    /\ pc = "vote" /\ day = 2 /\ conv_rounds = 3
    /\ Alive(players) # 1..Len(players)
    /\ \A k \in Alive(players) : prompt[k].kind = "vote" /\ Len(prompt[k].heard) = 2

\* C19: every message goes to a player who is alive when it is sent, so a dead
\* player is never prompted or notified again: the werewolf is alive whenever it
\* is asked for the kill, and a player who is marked dead in a step gets no
\* message of that step, neither the announcement of the elimination nor the
\* summary of the night.
C19_OnlyLivingAddressed ==
    [][pc # "start" =>
        /\ \A k \in 1..Len(players) :
                /\ sent'[k] # sent[k] => players'[k].is_alive
                /\ prompt'[k] # prompt[k] => players'[k].is_alive
                /\ (players[k].is_alive /\ ~players'[k].is_alive) =>
                        (sent'[k] = sent[k] /\ prompt'[k] = prompt[k])
                /\ ~players[k].is_alive => ~players'[k].is_alive
        /\ pc' = "wolf" => (players'[werewolf].is_alive /\ inflight' = {werewolf})
        /\ inflight' \subseteq Alive(players') \cup inflight]_vars

\* the summary of a night is out, and the player killed in it was not sent it
C19_Witness ==
    /\ pc = "summary"
    /\ werewolf_target # None /\ ~players[werewolf_target].is_alive
    /\ prompt[werewolf_target].kind # "night_summary"
    /\ \A k \in Alive(players) : prompt[k].kind = "night_summary"

\* C20: in a game of at least 3 players, whenever run_game starts a phase (appends
\* a PHASE record) game_over is false, the Werewolf is alive and at least two other
\* players are alive; when the game has ended, the winner Werewolves means the
\* Werewolf is alive with at most one other living player, and the winner
\* Villagers means the Werewolf is dead.
C20_PhaseStartAndEnd ==
    [][Len(players') >= 3 =>
        /\ Len(RecordsOf(game_log', {"PHASE"})) > Len(RecordsOf(game_log, {"PHASE"})) =>
                /\ ~game_over' /\ winner' = "None"
                /\ players'[werewolf].is_alive
                /\ Cardinality(Alive(players') \ {werewolf}) >= 2
        /\ pc' \in {"over", "done"} =>
                /\ game_over' /\ winner' \in Winners
                /\ winner' = "Werewolves" =>
                        /\ players'[werewolf].is_alive
                        /\ Cardinality(Alive(players') \ {werewolf}) <= 1
                /\ winner' = "Villagers" => ~players'[werewolf].is_alive]_vars

\* a game of four players that the Werewolves have won after a second day
C20_Witness ==
    /\ pc = "done" /\ winner = "Werewolves"
    /\ Len(players) = 4 /\ day = 2
    /\ PhaseRecords = <<ExpectedPhase(1), ExpectedPhase(2), ExpectedPhase(3), ExpectedPhase(4)>>


\* the player the reply of voter i resolves to, None while it has not arrived
ResolvedTo(i) ==
    IF vote_raw[i] = NoReply THEN None ELSE ParseName(players, vote_raw[i])

\* per name of the roster, the number of arrived replies that resolve to a living
\* player of that name
RepliesFor ==
    [n \in {players[k].name : k \in 1..Len(players)} |->
        Cardinality({i \in 1..Len(players) :
                        ResolvedTo(i) # None /\ players[ResolvedTo(i)].name = n})]

\* the count the tally holds for a name, 0 when the name is not in it
TallyOf(name) ==
    IF \E k \in 1..Len(votes) : votes[k][1] = name
    THEN votes[CHOOSE k \in 1..Len(votes) : votes[k][1] = name][2]
    ELSE 0

\* the names most replies resolve to
MostNamed ==
    LET count == RepliesFor
    IN  {n \in DOMAIN count : count[n] > 0 /\ \A m \in DOMAIN count : count[m] <= count[n]}

VoteRecords == RecordsOf(ThisPhase(game_log), {"VOTE"})

RECURSIVE SumOfTally(_)
SumOfTally(vs) == IF vs = <<>> THEN 0 ELSE Head(vs)[2] + SumOfTally(Tail(vs))

\* C21: under every order in which the replies of a vote arrive, the tally gives
\* each name exactly the number of arrived replies that resolve to a living player
\* of that name and lists no name twice; the VOTE records of the vote are as many
\* as the sum of the tally, at most one per living voter, and each names a living
\* player as target; and the outcome is the one the replies alone determine: with
\* one most-named name the first player of that name is eliminated, with several
\* the tie lists exactly those names.
C21_VoteOrderIndependent ==
    [][pc = "vote" =>
        /\ \A n \in DOMAIN RepliesFor : TallyOf(n) = RepliesFor[n]
        /\ \A k \in 1..Len(votes) : votes[k][1] \in DOMAIN RepliesFor
        /\ \A j, k \in 1..Len(votes) : votes[j][1] = votes[k][1] => j = k
        /\ Len(VoteRecords) = SumOfTally(votes)
        /\ Len(VoteRecords) <= Cardinality(Alive(players) \ inflight)
        /\ \A n \in DOMAIN RepliesFor :
                Len(SelectSeq(VoteRecords, LAMBDA r : r[2] = n))
                    <= Cardinality({i \in Alive(players) \ inflight : players[i].name = n})
        /\ \A k \in 1..Len(VoteRecords) :
                \E i \in Alive(players) : players[i].name = VoteRecords[k][3]
        /\ (Gathered /\ votes # <<>>) =>
                IF Cardinality(MostNamed) = 1
                THEN /\ pc' = "elim"
                     /\ \E n \in MostNamed :
                            players' = [players EXCEPT ![FirstNamed(players, n)].is_alive = FALSE]
                ELSE /\ pc' = "tie"
                     /\ players' = players
                     /\ LET tie == narration'[Len(narration')]
                        IN  /\ tie[1] = "There was a tie between"
                            /\ {tie[2][k] : k \in 1..Len(tie[2])} = MostNamed
                            /\ Len(tie[2]) = Cardinality(MostNamed)
      ]_vars

\* a player has been eliminated by a vote in which two replies named one player
\* and the reply of a later player of the roster arrived before an earlier one's
C21_Witness ==
    /\ pc = "elim"
    /\ \E k \in 1..Len(votes) : votes[k][2] >= 2
    /\ \E k \in 1..(Len(VoteRecords) - 1) :
            FirstNamed(players, VoteRecords[k][2]) > FirstNamed(players, VoteRecords[k + 1][2])


RoleNames == {"Werewolf", "Seer", "Medic", "Villager"}

\* the roles a message text states
RolesIn(text) == {text[j] : j \in 1..Len(text)} \cap RoleNames

\* the players a message goes out to in a step
SentTo == {k \in 1..Len(sent) : sent'[k] > sent[k]}

\* C22: a message the engine sends to a player states a role only if it is the
\* player's own introduction prompt of day 1, which states the recipient's own role
\* and no other; or the seer's inspection result, which goes to the seer alone and
\* states the role of the inspected player; or the announcement of an elimination
\* after a day vote, which states the role of the eliminated player.  The night
\* summary names the werewolf's target, killed or saved, and states no role, while
\* the KILLED record appended in the same step carries the victim's role; and the
\* summary is the same text whatever the role of the target is.
C22_RoleDisclosure ==
    [][\A k \in SentTo :
        LET m == prompt'[k]
        IN  /\ RolesIn(m.text) # {} =>
                \/ /\ m.kind = "introduce"
                   /\ day = 1 /\ pc' = "intro"
                   /\ m.text[2] = players[k].name
                   /\ RolesIn(m.text) = {players[k].role}
                   /\ Len(SelectSeq(m.text, LAMBDA x : x \in RoleNames)) = 1
                \/ /\ m.kind = "seer_result"
                   /\ k = seer
                   /\ SentTo = {seer}
                   /\ \E t \in Alive(players) :
                        m.text = <<players[t].name, "is a", players[t].role>>
                \/ /\ m.kind = "eliminated"
                   /\ pc = "vote" /\ pc' = "elim"
                   /\ \E t \in 1..Len(players) :
                        /\ ~players'[t].is_alive
                        /\ m.text = <<"The town has eliminated", players[t].name,
                                      "They were a", players[t].role>>
            /\ m.kind = "night_summary" =>
                /\ pc = "resolve"
                /\ RolesIn(m.text) = {}
                /\ werewolf_target # None =>
                        /\ m.text[2] = players[werewolf_target].name
                        /\ \A r \in RoleNames :
                             NightSummary([players EXCEPT ![werewolf_target].role = r],
                                          werewolf_target,
                                          IsSaved(werewolf_target, medic_target)) = m.text
                /\ players'[k].is_alive
                /\ players' # players =>
                        game_log'[Len(game_log')] =
                            <<"KILLED", players[werewolf_target].name,
                              players[werewolf_target].role>>
      ]_vars

\* a night in which the seer was told a role and a player was killed: the summary
\* is out to the living players and the KILLED record with the role is in the log
C22_Witness ==
    /\ pc = "summary"
    /\ Len(RecordsOf(ThisPhase(game_log), {"SEER_SEES"})) = 1
    /\ game_log[Len(game_log)][1] = "KILLED"
    /\ inflight # {}
    /\ \A k \in inflight :
            /\ prompt[k].kind = "night_summary"
            /\ prompt[k].text[1] = "The Werewolf killed"


NightsRun == Len(RecordsOf(game_log, {"PHASE"})) \div 2

\* C23: a game with a roster of three players or more in which every send returns,
\* every vote has a reply that resolves and the werewolf's reply of every night
\* resolves to a living player the medic does not protect that night comes to its
\* end: game_over is set, the winner is Villagers or Werewolves, the result is
\* built, and no more than (number of players - 2) night phases were run.
C23_BoundedTermination ==
    /\ [](pc # "start" => (Len(players) >= 3 /\ NightsRun <= Len(players) - 2))
    /\ <>(/\ pc = "done"
          /\ game_over
          /\ winner \in Winners
          /\ NightsRun <= Len(players) - 2
          /\ Len(RecordsOf(game_log, {"KILLED"})) = NightsRun)

\* a game of a full roster that ended only after (number of players - 2) nights,
\* each with a kill
C23_Witness ==
    /\ pc = "done"
    /\ Len(players) = MaxPlayers
    /\ NightsRun = Len(players) - 2
    /\ Len(RecordsOf(game_log, {"KILLED"})) = NightsRun
    /\ winner = "Werewolves"

\* without the assumption on the kill: the last night the model follows has ended
\* with every player alive and the game not over
C23_NoBoundProbe ==
    ~(/\ pc = "check_night"
      /\ day = MaxDay
      /\ Alive(players) = 1..Len(players)
      /\ Len(players) >= 3)

\* C24: once a send of a fan-out step has failed and run_game has raised, the game
\* state is frozen: the sends of that step that were still outstanding append no
\* VOTE record and no narration line and do not change the tally.
C24_FrozenAfterFailure ==
    [][failure = "send" =>
        /\ game_log' = game_log
        /\ narration' = narration
        /\ votes' = votes
      ]_vars

====
